---- MODULE Spec2Model ----
(***************************************************************************)
(* highlight-pointer (src/highlight-pointer.c): the overlay controller.    *)
(* The program state is the file's static variables; the X server side is  *)
(* the cursor hide count, the overlay window's map state, the passive key  *)
(* grabs and the two event queues (unread on the connection, and read into *)
(* the client-side queue).  One action per step of main and main_loop.     *)
(***************************************************************************)
EXTENDS Integers, Sequences, FiniteSets, TLC

VARIABLES
    pc,                 \* position in main / main_loop
    options,            \* static struct options
    keys,               \* keys[KEY_ARRAY_SIZE]
    numlockmask,        \* static unsigned int numlockmask (a set of modifier bits)
    button_pressed,     \* static int button_pressed
    cursor_visible,     \* static int cursor_visible
    highlight_visible,  \* static int highlight_visible
    selfpipe,           \* [created, bytes]: the self-pipe and the bytes in it
    sig_installed,      \* signal(SIGINT/SIGTERM, sig_handler) done
    hidecount,          \* X server: outstanding XFixesHideCursor calls of this client
    mapped,             \* X server: overlay window is mapped
    win_pos,            \* X server: <<x, y>> of the overlay window's top-left corner
    pointer,            \* X server: <<x, y>> of the pointer on the root window
    win_exists,         \* X server: overlay window exists
    dpy_open,           \* connection to the X server is open
    grabs,              \* X server: passive key grabs of this client
    sock,               \* events sent by the server, unread on the connection
    evq,                \* events read into the client-side (Xlib) queue
    elapsed,            \* seconds the current select() has been waiting
    calls,              \* display-protocol calls issued by the last step, in order
    last,               \* label of the last step of the program
    default_args,       \* the command line had no option (argc = 1)
    held,               \* pointer device: buttons held down (followed in SpecButtons)
    exit_status         \* process exit status, NoStatus while running

vars == <<pc, options, keys, numlockmask, button_pressed, cursor_visible,
          highlight_visible, selfpipe, sig_installed, hidecount, mapped,
          win_pos, pointer, win_exists, dpy_open, grabs, sock, evq, elapsed, calls, last,
          default_args, held, exit_status>>

----------------------------------------------------------------------------
(* Bounds of the model *)

MaxQueue == 1       \* events in flight (unread + client-side queue)
MaxPipe == 1        \* bytes written to the self-pipe
MaxButtons == 2     \* buttons of the pointer device held down at once

(* Program constants *)

KEY_ARRAY_SIZE == 5
KEY_QUIT == 0
KEY_TOGGLE_CURSOR == 1
KEY_TOGGLE_HIGHLIGHT == 2
KEY_TOGGLE_AUTOHIDE_CURSOR == 3
KEY_TOGGLE_AUTOHIDE_HIGHLIGHT == 4

NoSymbol == "NoSymbol"
NoStatus == "running"

LockMask == {"Lock"}
ShiftMask == {"Shift"}
ControlMask == {"Control"}
Mod1Mask == {"Mod1"}
Mod4Mask == {"Mod4"}
Mod2Mask == {"Mod2"}

Slots == 0 .. (KEY_ARRAY_SIZE - 1)

(* key_modifier_mapping: the modifier letter of a hotkey string -> mask *)
key_modifier_mapping ==
    [symbol \in {"S", "C", "M", "H"} |->
        CASE symbol = "S" -> ShiftMask
          [] symbol = "C" -> ControlMask
          [] symbol = "M" -> Mod1Mask
          [] symbol = "H" -> Mod4Mask]

----------------------------------------------------------------------------
(* Xlib conversions between key names, key symbols and key codes.  Two key *)
(* symbols share one key: "a" is the unshifted symbol of its key and "A"   *)
(* the shifted one.  "F35" is a key symbol no key of the keyboard carries. *)

XStringToKeysym(s) ==
    CASE s = <<"a">> -> "a"
      [] s = <<"A">> -> "A"
      [] s = <<"b">> -> "b"
      [] s = <<"F", "3", "5">> -> "F35"
      [] OTHER -> NoSymbol

XKeysymToKeycode(keysym) ==
    CASE keysym \in {"a", "A"} -> 38
      [] keysym = "b" -> 56
      [] OTHER -> 0

(* XLookupKeysym(&ev.xkey, 0): the key symbol in column 0 of the key *)
XLookupKeysym(keycode) ==
    CASE keycode = 38 -> "a"
      [] keycode = 56 -> "b"
      [] OTHER -> NoSymbol

(* parse_key: leading "X-" modifier prefixes, then the key name.  A hotkey *)
(* string is a sequence of characters.  res is the return value.           *)
RECURSIVE parse_key_loop(_, _)
parse_key_loop(s, modifiers) ==
    IF Len(s) >= 2 /\ s[2] = "-"
    THEN IF s[1] \in DOMAIN key_modifier_mapping
         THEN parse_key_loop(SubSeq(s, 3, Len(s)),
                             modifiers \cup key_modifier_mapping[s[1]])
         ELSE [res |-> 1, keysym |-> NoSymbol, modifiers |-> modifiers]
    ELSE LET keysym == XStringToKeysym(s)
         IN  [res |-> IF keysym = NoSymbol THEN 1 ELSE 0,
              keysym |-> keysym, modifiers |-> modifiers]

parse_key(s) == parse_key_loop(s, {})

(* atoi: an optional minus sign, then the digits up to the first character *)
(* that is not one.                                                        *)
Digits == <<"0", "1", "2", "3", "4", "5", "6", "7", "8", "9">>

IsDigit(c) == \E d \in DOMAIN Digits : Digits[d] = c

DigitValue(c) == (CHOOSE d \in DOMAIN Digits : Digits[d] = c) - 1

RECURSIVE atoi_digits(_, _)
atoi_digits(s, n) ==
    IF s # << >> /\ IsDigit(Head(s))
    THEN atoi_digits(Tail(s), 10 * n + DigitValue(Head(s)))
    ELSE n

(* faulty variant: the minus sign is not read *)
atoi_unsigned(s) == atoi_digits(s, 0)

atoi(s) ==
    IF s # << >> /\ Head(s) = "-"
    THEN 0 - atoi_digits(Tail(s), 0)
    ELSE atoi_digits(s, 0)

(* The command line: the options in the order given, each with its         *)
(* argument, a sequence of characters (empty for an option without one).   *)
Arg(opt, arg) == [opt |-> opt, arg |-> arg]

FlagNames == {"--auto-hide-cursor", "--auto-hide-highlight",
              "--hide-highlight", "--show-cursor"}

FlagOrder == <<"--auto-hide-cursor", "--auto-hide-highlight",
               "--hide-highlight", "--show-cursor">>

(* long_options: the option of slot k is KeyOptions[k + 1] *)
KeyOptions == <<"--key-quit", "--key-toggle-cursor", "--key-toggle-highlight",
                "--key-toggle-auto-hide-cursor",
                "--key-toggle-auto-hide-highlight">>

KeyArgsNone == << >>
KeyArgsAll ==
    (0 :> <<"a">>) @@ (1 :> <<"b">>) @@ (2 :> <<"C", "-", "a">>)
    @@ (3 :> <<"C", "-", "b">>) @@ (4 :> <<"M", "-", "a">>)
KeyArgsSame ==
    (0 :> <<"S", "-", "A">>) @@ (1 :> <<"b">>) @@ (2 :> <<"b">>)
KeyArgsBadModifier == (0 :> <<"X", "-", "a">>)
KeyArgsBadName == (1 :> <<"n", "o">>)
KeyArgsNoKeycode == (0 :> <<"F", "3", "5">>)

KeyArgChoices == {KeyArgsNone, KeyArgsAll, KeyArgsSame}
KeyArgBad == {KeyArgsBadModifier, KeyArgsBadName, KeyArgsNoKeycode}

(* the flags of a set, and the hotkey options of the slots given *)
FlagArgs(flags) ==
    SelectSeq([i \in DOMAIN FlagOrder |-> Arg(FlagOrder[i], << >>)],
              LAMBDA a : a.opt \in flags)

KeyArgSeq(keyargs) ==
    SelectSeq([i \in DOMAIN KeyOptions |->
                  Arg(KeyOptions[i],
                      IF (i - 1) \in DOMAIN keyargs THEN keyargs[i - 1] ELSE << >>)],
              LAMBDA a : a.arg # << >>)

(* -h, -o, -r, -t with valid and invalid values, an option getopt does not *)
(* know, and a hotkey string with an unknown modifier letter               *)
ValueArgs ==
    {Arg("-h", << >>),
     Arg("-r", <<"0">>), Arg("-r", <<"x">>),
     Arg("-o", <<"-", "1">>), Arg("-o", <<"2">>),
     Arg("-t", <<"0">>), Arg("-t", <<"1">>),
     Arg("-x", << >>),
     Arg("--key-quit", <<"X", "-", "a">>)}

ValueArgvs == {<<a>> : a \in ValueArgs} \cup {<<a, b>> : a, b \in ValueArgs}

Argvs ==
    {FlagArgs(flags) \o KeyArgSeq(keyargs) :
        flags \in SUBSET FlagNames, keyargs \in KeyArgChoices}
    \cup {KeyArgSeq(keyargs) : keyargs \in KeyArgBad}
    \cup ValueArgvs

(* faulty variant: auto-hide-highlight on by default *)
DefaultOptionsAutoHide ==
    [auto_hide_cursor |-> 0, auto_hide_highlight |-> 1,
     cursor_visible |-> 0, highlight_visible |-> 1,
     hide_timeout |-> 3, outline |-> 0, radius |-> 5]

(* set_options: the defaults *)
DefaultOptions ==
    [auto_hide_cursor |-> 0, auto_hide_highlight |-> 0,
     cursor_visible |-> 0, highlight_visible |-> 1,
     hide_timeout |-> 3, outline |-> 0, radius |-> 5]

UnsetKeys == [k \in Slots |-> [keysym |-> NoSymbol, modifiers |-> {}]]

(* set_options, lines 560-619: the getopt_long loop over the options left  *)
RECURSIVE set_options_loop(_, _, _)
set_options_loop(args, o, ks) ==
    IF args = << >>
    THEN [res |-> 0, options |-> o, keys |-> ks]
    ELSE LET c == Head(args).opt
             optarg == Head(args).arg
             rest == Tail(args)
             stop(res, o1) == [res |-> res, options |-> o1, keys |-> ks]
         IN  CASE \E k \in Slots : KeyOptions[k + 1] = c ->
                    LET k == CHOOSE k \in Slots : KeyOptions[k + 1] = c
                        p == parse_key(optarg)
                        ks1 == [ks EXCEPT ![k] = [keysym |-> p.keysym,
                                                  modifiers |-> p.modifiers]]
                    IN  IF p.res # 0
                        THEN [res |-> 1, options |-> o, keys |-> ks1]
                        ELSE set_options_loop(rest, o, ks1)
               [] c = "--auto-hide-cursor" ->
                    set_options_loop(rest, [o EXCEPT !.auto_hide_cursor = 1], ks)
               [] c = "--auto-hide-highlight" ->
                    set_options_loop(rest, [o EXCEPT !.auto_hide_highlight = 1], ks)
               [] c = "--hide-highlight" ->
                    set_options_loop(rest, [o EXCEPT !.highlight_visible = 0], ks)
               [] c = "--show-cursor" ->
                    set_options_loop(rest, [o EXCEPT !.cursor_visible = 1], ks)
               [] c = "-h" -> stop(-1, o)
               [] c = "-o" ->
                    LET o1 == [o EXCEPT !.outline = atoi(optarg)]
                    IN  IF o1.outline < 0 THEN stop(1, o1)
                        ELSE set_options_loop(rest, o1, ks)
               [] c = "-r" ->
                    LET o1 == [o EXCEPT !.radius = atoi(optarg)]
                    IN  IF o1.radius <= 0 THEN stop(1, o1)
                        ELSE set_options_loop(rest, o1, ks)
               [] c = "-t" ->
                    LET o1 == [o EXCEPT !.hide_timeout = atoi(optarg)]
                    IN  IF o1.hide_timeout <= 0 THEN stop(1, o1)
                        ELSE set_options_loop(rest, o1, ks)
               [] OTHER -> stop(1, o)

(* set_options: [res, options, keys] for a command line *)
set_options(argv) == set_options_loop(argv, DefaultOptions, UnsetKeys)

----------------------------------------------------------------------------
(* The part of the state the program's functions read and write, as one    *)
(* record, so that a function is an operator from record to record and a   *)
(* handler is their composition in the order of the code.                  *)

World ==
    [options |-> options, button_pressed |-> button_pressed,
     cursor_visible |-> cursor_visible, highlight_visible |-> highlight_visible,
     selfpipe |-> selfpipe, hidecount |-> hidecount, mapped |-> mapped,
     win_pos |-> win_pos, pointer |-> pointer, sock |-> sock, evq |-> evq, calls |-> << >>]

Commit(w) ==
    /\ options' = w.options
    /\ button_pressed' = w.button_pressed
    /\ cursor_visible' = w.cursor_visible
    /\ highlight_visible' = w.highlight_visible
    /\ selfpipe' = w.selfpipe
    /\ hidecount' = w.hidecount
    /\ mapped' = w.mapped
    /\ win_pos' = w.win_pos
    /\ pointer' = w.pointer
    /\ sock' = w.sock
    /\ evq' = w.evq
    /\ calls' = w.calls

Call(w, name) == [w EXCEPT !.calls = Append(@, name)]

(* A request with a reply: Xlib reads everything the server has sent up to *)
(* the reply, and queues the events among it on the client side.           *)
RoundTrip(w, name) ==
    [Call(w, name) EXCEPT !.evq = w.evq \o w.sock, !.sock = << >>]

show_cursor(w) ==
    [Call(w, "XFixesShowCursor") EXCEPT
        !.hidecount = IF @ > 0 THEN @ - 1 ELSE @,
        !.cursor_visible = 1]

hide_cursor(w) ==
    [Call(w, "XFixesHideCursor") EXCEPT
        !.hidecount = @ + 1,
        !.cursor_visible = 0]

(* XQueryPointer: the reply carries the pointer's position at that moment *)
get_pointer_position(w) == RoundTrip(w, "XQueryPointer")

total_radius(w) == w.options.radius + w.options.outline

(* init_window: the width and the height of the window *)
window_size(w) == 2 * total_radius(w) + 2

(* faulty variant: the window is placed without the margin of one pixel *)
move_window_no_margin(w) ==
    LET w1 == get_pointer_position(w)
    IN  [Call(w1, "XMoveWindow") EXCEPT
            !.win_pos = <<w1.pointer[1] - total_radius(w1),
                          w1.pointer[2] - total_radius(w1)>>]

(* XMoveWindow(dpy, win, x - total_radius - 1, y - total_radius - 1) with  *)
(* the x, y of the reply                                                   *)
move_window(w) ==
    LET w1 == get_pointer_position(w)
    IN  [Call(w1, "XMoveWindow") EXCEPT
            !.win_pos = <<w1.pointer[1] - total_radius(w1) - 1,
                          w1.pointer[2] - total_radius(w1) - 1>>]

(* faulty variant: the dot is always drawn in the released colour *)
redraw_released(w) ==
    LET w1 == Call(w, "XSetForeground(released_color)")
    IN  IF w.options.outline # 0
        THEN Call(Call(w1, "XSetLineAttributes"), "XDrawArc")
        ELSE Call(w1, "XFillArc")

redraw(w) ==
    LET w1 == Call(w, IF w.button_pressed # 0
                      THEN "XSetForeground(pressed_color)"
                      ELSE "XSetForeground(released_color)")
    IN  IF w.options.outline # 0
        THEN Call(Call(w1, "XSetLineAttributes"), "XDrawArc")
        ELSE Call(w1, "XFillArc")

show_highlight(w) ==
    LET w2 == move_window(w)
        w3 == [Call(w2, "XMapWindow") EXCEPT !.mapped = TRUE]
        w4 == redraw(w3)
    IN  [w4 EXCEPT !.highlight_visible = 1]

(* faulty variant: the window is unmapped and the flag is left alone *)
hide_highlight_keeps_flag(w) ==
    [Call(w, "XUnmapWindow") EXCEPT !.mapped = FALSE]

hide_highlight(w) ==
    [Call(w, "XUnmapWindow") EXCEPT !.mapped = FALSE, !.highlight_visible = 0]

(* faulty variant: the byte is never written *)
quit_lost(w) == w

(* quit: write(selfpipe[1], "", 1).  Before pipe() has run, selfpipe[1] is *)
(* 0 and the byte does not reach any pipe.                                 *)
quit(w) ==
    IF w.selfpipe.created
    THEN [w EXCEPT !.selfpipe.bytes = @ + 1]
    ELSE w

(* faulty variant: only caps-lock is masked off *)
CleanModifiersLockOnly(modifiers) == modifiers \ LockMask

(* handle_key, lines 264-270: the slot the loop stops at *)
CleanModifiers(modifiers) == modifiers \ (numlockmask \cup LockMask)

KeyMatches(k, keysym, modifiers) ==
    /\ keys[k].keysym = keysym
    /\ keys[k].modifiers = CleanModifiers(modifiers)

(* faulty variant: the last matching slot instead of the first *)
KeyIndexLast(keysym, modifiers) ==
    IF \E k \in Slots : KeyMatches(k, keysym, modifiers)
    THEN CHOOSE k \in Slots :
            /\ KeyMatches(k, keysym, modifiers)
            /\ \A j \in Slots : KeyMatches(j, keysym, modifiers) => k >= j
    ELSE KEY_ARRAY_SIZE

KeyIndex(keysym, modifiers) ==
    IF \E k \in Slots : KeyMatches(k, keysym, modifiers)
    THEN CHOOSE k \in Slots :
            /\ KeyMatches(k, keysym, modifiers)
            /\ \A j \in Slots : KeyMatches(j, keysym, modifiers) => k <= j
    ELSE KEY_ARRAY_SIZE

(* faulty variant: the preference is flipped and the cursor is left alone *)
toggle_cursor_flag_only(w) ==
    [w EXCEPT !.options.cursor_visible = 1 - @]

toggle_cursor(w) ==
    LET w1 == [w EXCEPT !.options.cursor_visible = 1 - @]
    IN  IF w1.options.cursor_visible # 0 /\ w1.cursor_visible = 0
        THEN show_cursor(w1)
        ELSE IF w1.options.cursor_visible = 0 /\ w1.cursor_visible # 0
             THEN hide_cursor(w1)
             ELSE w1

(* faulty variant: the actual visibility decides between show and hide *)
toggle_highlight_by_actual(w) ==
    LET w1 == IF w.highlight_visible # 0
              THEN hide_highlight(w)
              ELSE show_highlight(w)
    IN  [w1 EXCEPT !.options.highlight_visible = 1 - @]

toggle_highlight(w) ==
    LET w1 == IF w.options.highlight_visible # 0
              THEN hide_highlight(w)
              ELSE show_highlight(w)
    IN  [w1 EXCEPT !.options.highlight_visible = 1 - @]

toggle_autohide_cursor(w) ==
    [w EXCEPT !.options.auto_hide_cursor = 1 - @]

(* faulty variant: switching auto-hide on hides the highlight at once *)
toggle_autohide_highlight_hides(w) ==
    LET w1 == [w EXCEPT !.options.auto_hide_highlight = 1 - @]
    IN  IF w1.options.auto_hide_highlight # 0 /\ w1.highlight_visible # 0
        THEN hide_highlight(w1)
        ELSE w1

toggle_autohide_highlight(w) ==
    [w EXCEPT !.options.auto_hide_highlight = 1 - @]

(* handle_key, lines 271-301: the switch *)
handle_key(w, keysym, modifiers) ==
    LET k == KeyIndex(keysym, modifiers)
    IN  CASE k = KEY_QUIT -> quit(w)
          [] k = KEY_TOGGLE_CURSOR -> toggle_cursor(w)
          [] k = KEY_TOGGLE_HIGHLIGHT -> toggle_highlight(w)
          [] k = KEY_TOGGLE_AUTOHIDE_CURSOR -> toggle_autohide_cursor(w)
          [] k = KEY_TOGGLE_AUTOHIDE_HIGHLIGHT -> toggle_autohide_highlight(w)
          [] OTHER -> w

(* faulty variant: the cursor is shown without looking at cursor_visible *)
on_raw_motion_unchecked(w) ==
    LET w1 == IF /\ w.options.auto_hide_cursor # 0
                 /\ w.options.cursor_visible # 0
              THEN show_cursor(w)
              ELSE w
    IN  IF /\ w1.options.auto_hide_highlight # 0
           /\ w1.options.highlight_visible # 0
           /\ w1.highlight_visible = 0
        THEN show_highlight(w1)
        ELSE IF w1.highlight_visible # 0
             THEN move_window(w1)
             ELSE w1

(* faulty variant: the highlight is shown against the preference *)
on_raw_motion_ignores_preference(w) ==
    LET w1 == IF /\ w.options.auto_hide_cursor # 0
                 /\ w.options.cursor_visible # 0
                 /\ w.cursor_visible = 0
              THEN show_cursor(w)
              ELSE w
    IN  IF /\ w1.options.auto_hide_highlight # 0
           /\ w1.highlight_visible = 0
        THEN show_highlight(w1)
        ELSE IF w1.highlight_visible # 0
             THEN move_window(w1)
             ELSE w1

(* main_loop, lines 353-365: a raw motion event *)
on_raw_motion(w) ==
    LET w1 == IF /\ w.options.auto_hide_cursor # 0
                 /\ w.options.cursor_visible # 0
                 /\ w.cursor_visible = 0
              THEN show_cursor(w)
              ELSE w
    IN  IF /\ w1.options.auto_hide_highlight # 0
           /\ w1.options.highlight_visible # 0
           /\ w1.highlight_visible = 0
        THEN show_highlight(w1)
        ELSE IF w1.highlight_visible # 0
             THEN move_window(w1)
             ELSE w1

(* faulty variant: the timeout hides the cursor without auto-hide-cursor *)
on_timeout_hides_cursor(w) ==
    LET w1 == IF w.cursor_visible # 0
              THEN hide_cursor(w)
              ELSE w
    IN  IF w1.options.auto_hide_highlight # 0 /\ w1.highlight_visible # 0
        THEN hide_highlight(w1)
        ELSE w1

(* faulty variant: the timeout path does not look at highlight_visible *)
on_timeout_unguarded(w) ==
    LET w1 == IF w.options.auto_hide_cursor # 0 /\ w.cursor_visible # 0
              THEN hide_cursor(w)
              ELSE w
    IN  IF w1.options.auto_hide_highlight # 0
        THEN hide_highlight(w1)
        ELSE w1

(* main_loop, lines 398-405: select() returned 0 *)
on_timeout(w) ==
    LET w1 == IF w.options.auto_hide_cursor # 0 /\ w.cursor_visible # 0
              THEN hide_cursor(w)
              ELSE w
    IN  IF w1.options.auto_hide_highlight # 0 /\ w1.highlight_visible # 0
        THEN hide_highlight(w1)
        ELSE w1

(* faulty variant: the highlight is shown whatever the preference *)
show_initial_always(w) ==
    LET w1 == show_highlight(w)
    IN  IF w1.options.cursor_visible = 0 THEN hide_cursor(w1) ELSE w1

(* main, lines 702-708 *)
show_initial(w) ==
    LET w1 == IF w.options.highlight_visible # 0 THEN show_highlight(w) ELSE w
    IN  IF w1.options.cursor_visible = 0 THEN hide_cursor(w1) ELSE w1

(* grab_keys, lines 431-443: the modifier bit of Num_Lock in the server's  *)
(* modifier map: Mod2, or none when no key carries Num_Lock.               *)
NumLockMasks == {{}, Mod2Mask}

(* grab_keys, lines 445-457 *)
GrabModifiers(nlm) == <<{}, LockMask, nlm, nlm \cup LockMask>>

GrabCount == 2

grab_keys(ks, nlm) ==
    LET configured == {i \in Slots : ks[i].keysym # NoSymbol}
        bad == {i \in configured : XKeysymToKeycode(ks[i].keysym) = 0}
        done == IF bad = {} THEN configured
                ELSE {i \in configured : \A b \in bad : i < b}
    IN  [res |-> IF bad = {} THEN 0 ELSE 1,
         grabs |-> {[keycode |-> XKeysymToKeycode(ks[i].keysym),
                     modifiers |-> ks[i].modifiers \cup GrabModifiers(nlm)[j]] :
                        i \in done, j \in 1 .. GrabCount}]

(* main, lines 648-697: the calls that can fail before the keys are        *)
(* grabbed, in the order of the code                                       *)
Faults == {"XOpenDisplay", "XShapeQueryExtension", "XQueryExtension",
           "XIQueryVersion", "init_window", "init_colors"}

NoFault == "none"

(* faulty variant: a colour that cannot be allocated is ignored *)
main_setup_ignores_colors(ks, nlm, fault) ==
    LET g == grab_keys(ks, nlm)
        failed(dpy, win) ==
            [res |-> 1, dpy_open |-> dpy, win_exists |-> win, grabs |-> {},
             numlockmask |-> {}]
    IN  CASE fault = "XOpenDisplay" -> failed(FALSE, FALSE)
          [] fault \in {"XShapeQueryExtension", "XQueryExtension",
                        "XIQueryVersion", "init_window"} -> failed(TRUE, FALSE)
          [] OTHER -> [res |-> g.res, dpy_open |-> TRUE, win_exists |-> TRUE,
                       grabs |-> g.grabs, numlockmask |-> nlm]

(* main, lines 648-697: [res, ...] and what exists when main returns or    *)
(* goes on                                                                 *)
main_setup(ks, nlm, fault) ==
    LET g == grab_keys(ks, nlm)
        failed(dpy, win) ==
            [res |-> 1, dpy_open |-> dpy, win_exists |-> win, grabs |-> {},
             numlockmask |-> {}]
    IN  CASE fault = "XOpenDisplay" -> failed(FALSE, FALSE)
          [] fault \in {"XShapeQueryExtension", "XQueryExtension",
                        "XIQueryVersion", "init_window"} -> failed(TRUE, FALSE)
          [] fault = "init_colors" -> failed(TRUE, TRUE)
          [] OTHER -> [res |-> g.res, dpy_open |-> TRUE, win_exists |-> TRUE,
                       grabs |-> g.grabs, numlockmask |-> nlm]

(* An error the server reports for an earlier request; Xlib calls the      *)
(* error handler when it reads it, at the latest in XSync.                 *)
XError(request_code, error_code) ==
    [request_code |-> request_code, error_code |-> error_code]

X_GrabKey == 33

NoError == XError(0, "Success")

(* the errors of XGrabKey, of XChangeProperty and of XMoveWindow *)
XErrors == {NoError, XError(X_GrabKey, "BadAccess"), XError(18, "BadAtom"),
            XError(12, "BadWindow")}

(* xerror_handler, lines 623-636: TRUE when it returns, FALSE when it      *)
(* calls exit(1)                                                           *)
xerror_handler(err) ==
    IF err.request_code = X_GrabKey /\ err.error_code = "BadAccess"
    THEN FALSE
    ELSE IF err.error_code = "BadAtom"
         THEN TRUE
         ELSE FALSE

----------------------------------------------------------------------------
(* Events *)

(* the label of a step; for a key press, with the modifier state it had *)
Did(op) == [op |-> op, state |-> {}]

Event(type, evtype, keycode, state, count) ==
    [type |-> type, evtype |-> evtype, keycode |-> keycode,
     state |-> state, count |-> count]

RawMotion == Event("GenericEvent", "XI_RawMotion", 0, {}, 0)
RawButtonPress == Event("GenericEvent", "XI_RawButtonPress", 0, {}, 0)
RawButtonRelease == Event("GenericEvent", "XI_RawButtonRelease", 0, {}, 0)
KeyPress(keycode, state) == Event("KeyPress", "", keycode, state, 0)
Expose(count) == Event("Expose", "", 0, {}, count)
VisibilityNotify == Event("VisibilityNotify", "", 0, {}, 0)

Keycodes == {38, 56}
ModifierBits == {"Shift", "Lock", "Control", "Mod1", "Mod2"}
ExposeCounts == {0, 1}

(* handle_key's slot for a key event as main_loop passes it on (line 380) *)
EventSlot(ev) ==
    IF ev.type = "KeyPress" /\ XLookupKeysym(ev.keycode) # NoSymbol
    THEN KeyIndex(XLookupKeysym(ev.keycode), ev.state)
    ELSE KEY_ARRAY_SIZE

RECURSIVE CountQuits(_)
CountQuits(q) ==
    IF q = << >> THEN 0
    ELSE (IF EventSlot(Head(q)) = KEY_QUIT THEN 1 ELSE 0) + CountQuits(Tail(q))

(* bytes in the self-pipe once every queued quit key has been handled *)
PipeDemand == selfpipe.bytes + CountQuits(evq \o sock)

Pending == evq \o sock

Connected == pc \in {"sync", "show", "signal", "main_loop", "select", "drain"}

----------------------------------------------------------------------------
(* Initial state: the static initialisers *)

InitialPointer == <<100, 50>>

Init ==
    /\ pc = "main"
    /\ options = [auto_hide_cursor |-> 0, auto_hide_highlight |-> 0,
                  cursor_visible |-> 0, highlight_visible |-> 0,
                  hide_timeout |-> 0, outline |-> 0, radius |-> 0]
    /\ keys = UnsetKeys
    /\ numlockmask = {}
    /\ button_pressed = 0
    /\ cursor_visible = 1
    /\ highlight_visible = 0
    /\ selfpipe = [created |-> FALSE, bytes |-> 0]
    /\ sig_installed = FALSE
    /\ hidecount = 0
    /\ mapped = FALSE
    /\ win_pos = <<0, 0>>
    /\ pointer = InitialPointer
    /\ win_exists = FALSE
    /\ dpy_open = FALSE
    /\ grabs = {}
    /\ sock = << >>
    /\ evq = << >>
    /\ elapsed = 0
    /\ calls = << >>
    /\ last = Did("init")
    /\ default_args = FALSE
    /\ held = 0
    /\ exit_status = NoStatus

(* main, lines 641-646 *)
ParseOptions(argv) ==
    /\ pc = "main"
    /\ LET r == set_options(argv)
       IN  /\ options' = r.options
           /\ keys' = r.keys
           /\ pc' = IF r.res # 0 THEN "exit" ELSE "setup"
           /\ exit_status' = IF r.res < 0 THEN 0
                             ELSE IF r.res > 0 THEN r.res ELSE NoStatus
    /\ last' = Did("set_options")
    /\ default_args' = (argv = << >>)
    /\ UNCHANGED held
    /\ UNCHANGED <<numlockmask, button_pressed, cursor_visible, highlight_visible,
                   selfpipe, sig_installed, hidecount, mapped, win_pos,
                   pointer, win_exists,
                   dpy_open, grabs, sock, evq, elapsed, calls>>

(* main, lines 648-697: open the display, create the window (at           *)
(* options.outline, options.outline), select the raw events, allocate the  *)
(* colours, grab the keys                                                  *)
Setup(nlm, fault) ==
    /\ pc = "setup"
    /\ LET r == main_setup(keys, nlm, fault)
       IN  /\ numlockmask' = r.numlockmask
           /\ grabs' = r.grabs
           /\ dpy_open' = r.dpy_open
           /\ win_exists' = r.win_exists
           /\ win_pos' = IF r.win_exists
                         THEN <<options.outline, options.outline>>
                         ELSE win_pos
           /\ pc' = IF r.res # 0 THEN "exit" ELSE "sync"
           /\ exit_status' = IF r.res # 0 THEN r.res ELSE NoStatus
           /\ last' = Did(IF r.res # 0 THEN "setup_failed" ELSE "setup")
    /\ UNCHANGED <<options, keys, button_pressed, cursor_visible,
                   highlight_visible, selfpipe, sig_installed, hidecount,
                   mapped, pointer, sock, evq, elapsed, calls, default_args, held>>

(* main, lines 699-700: XAllowEvents, XSync.  XSync reads the errors of    *)
(* the requests made so far: the error handler returns, or ends the        *)
(* process with exit(1).  An XGrabKey error needs an XGrabKey request.     *)
Sync(err) ==
    /\ pc = "sync"
    /\ err.request_code = X_GrabKey => grabs # {}
    /\ Commit(RoundTrip(Call(World, "XAllowEvents"), "XSync"))
    /\ IF err = NoError \/ xerror_handler(err)
       THEN /\ pc' = "show"
            /\ last' = Did("sync")
            /\ UNCHANGED exit_status
       ELSE /\ pc' = "exit"
            /\ last' = Did("xerror")
            /\ exit_status' = 1
    /\ UNCHANGED <<keys, numlockmask, sig_installed, win_exists, dpy_open,
                   grabs, elapsed, default_args, held>>

(* main, lines 702-708 *)
ShowInitial ==
    /\ pc = "show"
    /\ Commit(show_initial(World))
    /\ pc' = "signal"
    /\ last' = Did("show_initial")
    /\ UNCHANGED <<keys, numlockmask, sig_installed, win_exists, dpy_open,
                   grabs, elapsed, default_args, held, exit_status>>

(* main, lines 710-711 *)
InstallSignals ==
    /\ pc = "signal"
    /\ sig_installed' = TRUE
    /\ pc' = "main_loop"
    /\ last' = Did("signal")
    /\ calls' = << >>
    /\ UNCHANGED <<options, keys, numlockmask, button_pressed, cursor_visible,
                   highlight_visible, selfpipe, hidecount, mapped, win_pos,
                   pointer, win_exists, dpy_open, grabs, sock, evq, elapsed,
                   default_args, held, exit_status>>

(* main_loop, line 316: pipe(selfpipe) *)
CreatePipe ==
    /\ pc = "main_loop"
    /\ selfpipe' = [created |-> TRUE, bytes |-> 0]
    /\ pc' = "select"
    /\ elapsed' = 0
    /\ last' = Did("pipe")
    /\ calls' = << >>
    /\ UNCHANGED <<options, keys, numlockmask, button_pressed, cursor_visible,
                   highlight_visible, sig_installed, hidecount, mapped,
                   win_pos, pointer, win_exists, dpy_open, grabs, sock, evq,
                   default_args, held, exit_status>>

----------------------------------------------------------------------------
(* main_loop: the wait *)

Fixed == <<keys, numlockmask, sig_installed, win_exists, dpy_open, grabs,
           default_args, held, exit_status>>

(* a second passes while select() waits with nothing readable *)
Tick ==
    /\ pc = "select"
    /\ sock = << >>
    /\ selfpipe.bytes = 0
    /\ elapsed < options.hide_timeout
    /\ elapsed' = elapsed + 1
    /\ UNCHANGED <<pc, options, button_pressed, cursor_visible,
                   highlight_visible, selfpipe, hidecount, mapped, win_pos,
                   pointer, sock, evq, calls, last>>
    /\ UNCHANGED Fixed

(* lines 332-335: the cancellation descriptor is readable *)
SelectCancel ==
    /\ pc = "select"
    /\ selfpipe.bytes > 0
    /\ pc' = "cleanup"
    /\ calls' = <<"XFlush">>
    /\ last' = Did("cancel")
    /\ UNCHANGED <<options, button_pressed, cursor_visible, highlight_visible,
                   selfpipe, hidecount, mapped, win_pos, pointer, sock, evq,
                   elapsed>>
    /\ UNCHANGED Fixed

(* faulty variant: the events are drained although the cancellation        *)
(* descriptor is readable                                                  *)
SelectReadyIgnoresPipe ==
    /\ pc = "select"
    /\ sock # << >>
    /\ pc' = "drain"
    /\ calls' = <<"XFlush">>
    /\ last' = Did("ready")
    /\ UNCHANGED <<options, button_pressed, cursor_visible, highlight_visible,
                   selfpipe, hidecount, mapped, win_pos, pointer, sock, evq,
                   elapsed>>
    /\ UNCHANGED Fixed

(* lines 332-336: only the display descriptor is readable *)
SelectReady ==
    /\ pc = "select"
    /\ selfpipe.bytes = 0
    /\ sock # << >>
    /\ pc' = "drain"
    /\ calls' = <<"XFlush">>
    /\ last' = Did("ready")
    /\ UNCHANGED <<options, button_pressed, cursor_visible, highlight_visible,
                   selfpipe, hidecount, mapped, win_pos, pointer, sock, evq,
                   elapsed>>
    /\ UNCHANGED Fixed

(* lines 398-405: nothing became readable for hide_timeout seconds *)
SelectTimeout ==
    /\ pc = "select"
    /\ selfpipe.bytes = 0
    /\ sock = << >>
    /\ elapsed = options.hide_timeout
    /\ Commit(on_timeout(Call(World, "XFlush")))
    /\ pc' = "select"
    /\ elapsed' = 0
    /\ last' = Did("timeout")
    /\ UNCHANGED Fixed

----------------------------------------------------------------------------
(* main_loop, lines 336-397: one pass of the drain loop.  XPending reads   *)
(* what is unread on the connection; XNextEvent takes the oldest event.    *)

NextEvent == Head(Pending)

Taken == [World EXCEPT !.evq = Tail(Pending), !.sock = << >>]

Draining(type, evtype) ==
    /\ pc = "drain"
    /\ Pending # << >>
    /\ NextEvent.type = type
    /\ NextEvent.evtype = evtype

OnRawMotion ==
    /\ Draining("GenericEvent", "XI_RawMotion")
    /\ Commit(on_raw_motion(Taken))
    /\ last' = Did("motion")
    /\ UNCHANGED <<pc, elapsed>>
    /\ UNCHANGED Fixed

OnRawButtonPress ==
    /\ Draining("GenericEvent", "XI_RawButtonPress")
    /\ Commit(redraw([Taken EXCEPT !.button_pressed = 1]))
    /\ last' = Did("button_press")
    /\ UNCHANGED <<pc, elapsed>>
    /\ UNCHANGED Fixed

(* faulty variant: the release of one of several held buttons keeps the    *)
(* pressed state                                                           *)
OnRawButtonReleaseCounting ==
    /\ Draining("GenericEvent", "XI_RawButtonRelease")
    /\ Commit(redraw([Taken EXCEPT !.button_pressed = IF held > 0 THEN 1 ELSE 0]))
    /\ last' = Did("button_release")
    /\ UNCHANGED <<pc, elapsed>>
    /\ UNCHANGED Fixed

OnRawButtonRelease ==
    /\ Draining("GenericEvent", "XI_RawButtonRelease")
    /\ Commit(redraw([Taken EXCEPT !.button_pressed = 0]))
    /\ last' = Did("button_release")
    /\ UNCHANGED <<pc, elapsed>>
    /\ UNCHANGED Fixed

KeyLabel(k) ==
    CASE k = KEY_QUIT -> "key_quit"
      [] k = KEY_TOGGLE_CURSOR -> "key_toggle_cursor"
      [] k = KEY_TOGGLE_HIGHLIGHT -> "key_toggle_highlight"
      [] k = KEY_TOGGLE_AUTOHIDE_CURSOR -> "key_toggle_autohide_cursor"
      [] k = KEY_TOGGLE_AUTOHIDE_HIGHLIGHT -> "key_toggle_autohide_highlight"
      [] OTHER -> "key_none"

(* lines 379-385 *)
OnKeyPress ==
    /\ Draining("KeyPress", "")
    /\ LET keysym == XLookupKeysym(NextEvent.keycode)
       IN  IF keysym # NoSymbol
           THEN Commit(handle_key(Taken, keysym, NextEvent.state))
           ELSE Commit(Taken)
    /\ last' = [op |-> KeyLabel(EventSlot(NextEvent)), state |-> NextEvent.state]
    /\ UNCHANGED <<pc, elapsed>>
    /\ UNCHANGED Fixed

(* lines 386-391 *)
OnExpose ==
    /\ Draining("Expose", "")
    /\ Commit(IF NextEvent.count < 1 THEN redraw(Taken) ELSE Taken)
    /\ last' = Did("expose")
    /\ UNCHANGED <<pc, elapsed>>
    /\ UNCHANGED Fixed

(* lines 392-396 *)
OnVisibilityNotify ==
    /\ Draining("VisibilityNotify", "")
    /\ Commit(Call(Taken, "XRaiseWindow"))
    /\ last' = Did("visibility")
    /\ UNCHANGED <<pc, elapsed>>
    /\ UNCHANGED Fixed

(* faulty variant: the drain loop is left as soon as a byte is in the pipe *)
DrainDoneOnQuit ==
    /\ pc = "drain"
    /\ Pending = << >> \/ selfpipe.bytes > 0
    /\ pc' = "select"
    /\ elapsed' = 0
    /\ calls' = << >>
    /\ last' = Did("drained")
    /\ UNCHANGED <<options, button_pressed, cursor_visible, highlight_visible,
                   selfpipe, hidecount, mapped, win_pos, pointer, sock, evq>>
    /\ UNCHANGED Fixed

(* line 336: XPending returns 0, back to the top of the loop *)
DrainDone ==
    /\ pc = "drain"
    /\ Pending = << >>
    /\ pc' = "select"
    /\ elapsed' = 0
    /\ calls' = << >>
    /\ last' = Did("drained")
    /\ UNCHANGED <<options, button_pressed, cursor_visible, highlight_visible,
                   selfpipe, hidecount, mapped, win_pos, pointer, sock, evq>>
    /\ UNCHANGED Fixed

(* main, lines 715-724 *)
Cleanup ==
    /\ pc = "cleanup"
    /\ LET w1 == IF cursor_visible = 0 THEN show_cursor(World) ELSE World
           w2 == Call(w1, "XUngrabKey")
           w3 == [Call(w2, "XUnmapWindow") EXCEPT !.mapped = FALSE]
           w4 == Call(Call(Call(w3, "XFreeGC"), "XDestroyWindow"), "XCloseDisplay")
       IN  Commit(w4)
    /\ grabs' = {}
    /\ win_exists' = FALSE
    /\ dpy_open' = FALSE
    /\ exit_status' = 0
    /\ pc' = "exit"
    /\ last' = Did("cleanup")
    /\ UNCHANGED <<keys, numlockmask, sig_installed, elapsed, default_args,
                   held>>

----------------------------------------------------------------------------
(* sig_handler, lines 461-464, for SIGINT or SIGTERM *)

SignalDelivered ==
    /\ sig_installed
    /\ pc \in {"main_loop", "select", "drain"}
    /\ PipeDemand < MaxPipe

(* the handler runs between two steps of the program *)
Signal ==
    /\ SignalDelivered
    /\ Commit([quit(World) EXCEPT !.calls = calls])
    /\ UNCHANGED <<pc, elapsed, last>>
    /\ UNCHANGED Fixed

(* faulty variant: the interrupted wait is retried *)
SignalInSelectRetries ==
    /\ SignalDelivered
    /\ pc = "select"
    /\ Commit([quit(World) EXCEPT !.calls = <<"XFlush">>])
    /\ pc' = "select"
    /\ last' = Did("eintr")
    /\ UNCHANGED elapsed
    /\ UNCHANGED Fixed

(* the handler runs while select() is blocked: select returns -1 with      *)
(* EINTR, lines 326-331                                                    *)
SignalInSelect ==
    /\ SignalDelivered
    /\ pc = "select"
    /\ Commit([quit(World) EXCEPT !.calls = <<"XFlush">>])
    /\ pc' = "cleanup"
    /\ last' = Did("eintr")
    /\ UNCHANGED elapsed
    /\ UNCHANGED Fixed

(* select() returns -1 for another reason than a signal (errno is not      *)
(* EINTR), lines 326-331: perror, break                                    *)
SelectError ==
    /\ pc = "select"
    /\ pc' = "cleanup"
    /\ calls' = <<"XFlush", "perror">>
    /\ last' = Did("select_failed")
    /\ UNCHANGED <<options, button_pressed, cursor_visible, highlight_visible,
                   selfpipe, hidecount, mapped, win_pos, pointer, sock, evq,
                   elapsed>>
    /\ UNCHANGED Fixed

----------------------------------------------------------------------------
(* The X server sends an event *)

(* the event is sent with the pointer at position p and h buttons held *)
SendHeld(ev, p, h) ==
    /\ Connected
    /\ Len(Pending) < MaxQueue
    /\ sock' = Append(sock, ev)
    /\ pointer' = p
    /\ held' = h
    /\ UNCHANGED <<pc, options, button_pressed, cursor_visible,
                   highlight_visible, selfpipe, hidecount, mapped, win_pos, evq,
                   elapsed, calls, last>>
    /\ UNCHANGED <<keys, numlockmask, sig_installed, win_exists, dpy_open,
                   grabs, default_args, exit_status>>

SendAt(ev, p) == SendHeld(ev, p, held)

Send(ev) == SendAt(ev, pointer)

(* the pointer device moves; the pointer arrives at p *)
UserMovesTo(p) == SendAt(RawMotion, p)

(* a motion that leaves the pointer on the pixel it is on *)
UserMoves == UserMovesTo(pointer)

UserPressesButton == Send(RawButtonPress)

UserReleasesButton == Send(RawButtonRelease)

(* one more button of the device goes down; one of those held goes up *)
DevicePressesButton ==
    /\ held < MaxButtons
    /\ SendHeld(RawButtonPress, pointer, held + 1)

DeviceReleasesButton ==
    /\ held > 0
    /\ SendHeld(RawButtonRelease, pointer, held - 1)

(* a key press reaches the client only through one of its passive grabs *)
UserPressesKey(keycode, state) ==
    /\ [keycode |-> keycode, modifiers |-> state] \in grabs
    /\ EventSlot(KeyPress(keycode, state)) = KEY_QUIT => PipeDemand < MaxPipe
    /\ Send(KeyPress(keycode, state))

ServerExposes(count) ==
    /\ mapped
    /\ Send(Expose(count))

ServerVisibility ==
    /\ mapped
    /\ Send(VisibilityNotify)

----------------------------------------------------------------------------
Next ==
    \/ \E argv \in Argvs : ParseOptions(argv)
    \/ \E nlm \in NumLockMasks, fault \in Faults \cup {NoFault} :
          Setup(nlm, fault)
    \/ \E err \in XErrors : Sync(err)
    \/ ShowInitial
    \/ InstallSignals
    \/ CreatePipe
    \/ Tick
    \/ SelectCancel
    \/ SelectReady
    \/ SelectTimeout
    \/ OnRawMotion
    \/ OnRawButtonPress
    \/ OnRawButtonRelease
    \/ OnKeyPress
    \/ OnExpose
    \/ OnVisibilityNotify
    \/ DrainDone
    \/ Cleanup
    \/ Signal
    \/ SignalInSelect
    \/ SelectError
    \/ UserMoves
    \/ UserPressesButton
    \/ UserReleasesButton
    \/ \E keycode \in Keycodes, state \in SUBSET ModifierBits :
          UserPressesKey(keycode, state)
    \/ \E count \in ExposeCounts : ServerExposes(count)
    \/ ServerVisibility

Spec == Init /\ [][Next]_vars

----------------------------------------------------------------------------
(* handle_key applied to every key press, whether or not one of the grabs  *)
(* delivers it: the matching of lines 263-270 as a function of its input.  *)

(* a key of the keyboard with no symbol in column 0 *)
NoSymbolKeycode == 255

AnyKeyPress(keycode, state) ==
    /\ EventSlot(KeyPress(keycode, state)) = KEY_QUIT => PipeDemand < MaxPipe
    /\ Send(KeyPress(keycode, state))

KeyArgvs == {KeyArgSeq(keyargs) : keyargs \in KeyArgChoices}

NextKeys ==
    \/ \E argv \in KeyArgvs : ParseOptions(argv)
    \/ \E nlm \in NumLockMasks, fault \in Faults \cup {NoFault} :
          Setup(nlm, fault)
    \/ \E err \in XErrors : Sync(err)
    \/ ShowInitial
    \/ InstallSignals
    \/ CreatePipe
    \/ SelectCancel
    \/ SelectReady
    \/ OnKeyPress
    \/ DrainDone
    \/ Cleanup
    \/ \E keycode \in Keycodes, state \in SUBSET ModifierBits :
          AnyKeyPress(keycode, state)
    \/ \E state \in SUBSET (LockMask \cup Mod2Mask) :
          AnyKeyPress(NoSymbolKeycode, state)

SpecKeys == Init /\ [][NextKeys]_vars

----------------------------------------------------------------------------
(* The pointer moving over the screen: show_highlight and the motion path  *)
(* of lines 359-363 with the pointer at several positions, for dots of two *)
(* sizes, with and without auto-hide and the toggle-highlight hotkey.      *)

Positions == {<<100, 50>>, <<3, 7>>, <<640, 50>>}

PosArgvs ==
    {<< >>,
     <<Arg("--auto-hide-highlight", << >>), Arg("-t", <<"1">>)>>,
     <<Arg("-r", <<"7">>), Arg("-o", <<"2">>),
       Arg("--key-toggle-highlight", <<"a">>)>>,
     <<Arg("--hide-highlight", << >>), Arg("--auto-hide-highlight", << >>),
       Arg("--key-toggle-highlight", <<"a">>)>>}

NextPos ==
    \/ \E argv \in PosArgvs : ParseOptions(argv)
    \/ \E nlm \in NumLockMasks : Setup(nlm, NoFault)
    \/ Sync(NoError)
    \/ ShowInitial
    \/ InstallSignals
    \/ CreatePipe
    \/ Tick
    \/ SelectReady
    \/ SelectTimeout
    \/ OnRawMotion
    \/ OnKeyPress
    \/ DrainDone
    \/ \E p \in Positions : UserMovesTo(p)
    \/ UserPressesKey(38, {})

SpecPos == Init /\ [][NextPos]_vars

----------------------------------------------------------------------------
(* The buttons of the pointer device: lines 366-375 with the number of     *)
(* buttons held down followed, for the filled and the outlined dot.        *)

ButtonArgvs == {<< >>, <<Arg("-o", <<"2">>)>>}

NextButtons ==
    \/ \E argv \in ButtonArgvs : ParseOptions(argv)
    \/ \E nlm \in NumLockMasks : Setup(nlm, NoFault)
    \/ Sync(NoError)
    \/ ShowInitial
    \/ InstallSignals
    \/ CreatePipe
    \/ Tick
    \/ SelectReady
    \/ SelectTimeout
    \/ OnRawButtonPress
    \/ OnRawButtonRelease
    \/ OnExpose
    \/ DrainDone
    \/ DevicePressesButton
    \/ DeviceReleasesButton
    \/ \E count \in ExposeCounts : ServerExposes(count)

SpecButtons == Init /\ [][NextButtons]_vars

----------------------------------------------------------------------------
(* Properties *)

InLoop == pc \in {"select", "drain"}

Has(seq, x) == \E i \in 1 .. Len(seq) : seq[i] = x

CountOf(seq, x) == Cardinality({i \in 1 .. Len(seq) : seq[i] = x})

(* C1: in every state of the event loop, cursor_visible is 1 exactly when  *)
(* the pointer cursor is shown (no XFixesHideCursor outstanding) and       *)
(* highlight_visible is 1 exactly when the overlay window is mapped.       *)
C1_FlagsMirrorScreen ==
    InLoop =>
        /\ cursor_visible \in {0, 1}
        /\ highlight_visible \in {0, 1}
        /\ (cursor_visible = 1) <=> (hidecount = 0)
        /\ (highlight_visible = 1) <=> mapped

(* the idle timeout has just hidden the highlight while the cursor is hidden *)
C1_Witness ==
    /\ InLoop
    /\ last.op = "timeout"
    /\ Has(calls, "XUnmapWindow")
    /\ highlight_visible = 0 /\ ~mapped
    /\ cursor_visible = 0 /\ hidecount = 1

(* C2 as stated: started with no option, the idle timeout (no event for    *)
(* the hide timeout of 3 seconds) hides the highlight and leaves the       *)
(* cursor visibility unchanged.                                            *)
C2_DefaultTimeoutHidesHighlight ==
    [][(default_args /\ SelectTimeout) =>
          /\ elapsed = 3
          /\ highlight_visible' = 0
          /\ cursor_visible' = cursor_visible]_vars

(* C2, amended: started with no option, the idle timeout after 3 seconds   *)
(* without an event leaves the highlight visible (auto-hide-highlight is   *)
(* off by default) and leaves the cursor visibility unchanged.             *)
C2_DefaultTimeoutHidesNothing ==
    [][(default_args /\ SelectTimeout) =>
          /\ elapsed = 3
          /\ highlight_visible = 1
          /\ highlight_visible' = 1
          /\ mapped'
          /\ cursor_visible' = cursor_visible
          /\ calls' = <<"XFlush">>]_vars

C2_Witness ==
    /\ default_args
    /\ last.op = "timeout"
    /\ highlight_visible = 1
    /\ cursor_visible = 0

ShowsOrHidesHighlight(c) == Has(c, "XMapWindow") \/ Has(c, "XUnmapWindow")

C4_MotionReshows ==
    [][OnRawMotion =>
          /\ (highlight_visible = 0 /\ options.highlight_visible = 1)
                => highlight_visible' = 1
          /\ (cursor_visible = 0 /\ options.cursor_visible = 1)
                => cursor_visible' = 1]_vars

ToggleHighlightStep == OnKeyPress /\ last'.op = "key_toggle_highlight"

ToggleCursorStep == OnKeyPress /\ last'.op = "key_toggle_cursor"

(* C6: toggle-cursor flips the cursor preference and shows or hides the    *)
(* cursor exactly when the flipped preference differs from the actual      *)
(* visibility; right after it cursor_visible equals options.cursor_visible *)
C6_ToggleCursorReconciles ==
    [][ToggleCursorStep =>
          /\ options'.cursor_visible = 1 - options.cursor_visible
          /\ cursor_visible' = options'.cursor_visible
          /\ (hidecount' = 0) <=> (cursor_visible' = 1)
          /\ calls' = IF options'.cursor_visible = cursor_visible THEN << >>
                      ELSE IF options'.cursor_visible = 1
                           THEN <<"XFixesShowCursor">>
                           ELSE <<"XFixesHideCursor">>]_vars

(* toggle-cursor has just shown a hidden cursor *)
C6_Witness ==
    /\ last.op = "key_toggle_cursor"
    /\ calls = <<"XFixesShowCursor">>
    /\ cursor_visible = 1
    /\ options.cursor_visible = 1

AutoHideToggleStep ==
    /\ OnKeyPress
    /\ last'.op \in {"key_toggle_autohide_cursor", "key_toggle_autohide_highlight"}

(* C7: the two toggle-auto-hide hotkeys flip their own auto-hide flag and  *)
(* nothing else: both visibility flags, both preference flags, the other   *)
(* auto-hide flag and button_pressed are unchanged and no call is issued.  *)
C7_AutoHideTogglesFlipOnlyTheirFlag ==
    [][AutoHideToggleStep =>
          /\ options' =
                IF last'.op = "key_toggle_autohide_cursor"
                THEN [options EXCEPT !.auto_hide_cursor = 1 - @]
                ELSE [options EXCEPT !.auto_hide_highlight = 1 - @]
          /\ UNCHANGED <<cursor_visible, highlight_visible, button_pressed,
                         hidecount, mapped, selfpipe>>
          /\ calls' = << >>]_vars

(* auto-hide-highlight switched off while the timeout has the highlight    *)
(* hidden                                                                  *)
C7_Witness ==
    /\ last.op = "key_toggle_autohide_highlight"
    /\ options.auto_hide_highlight = 0
    /\ options.highlight_visible = 1
    /\ highlight_visible = 0
    /\ calls = << >>

(* the lock bits of the keyboard: caps-lock, and num-lock where a key     *)
(* carries it                                                              *)
LockBits == LockMask \cup numlockmask

SameBinding(k) == {j \in Slots : keys[j] = keys[k]}

(* C8: for every configured binding (keysym, mods), a key press with that  *)
(* keysym whose state is mods plus any subset of the lock bits runs the    *)
(* binding (the action of a slot that holds it), and a key press whose     *)
(* state without the lock bits differs from mods, as with one more         *)
(* non-lock modifier held, does not.                                       *)
C8_LockBitsIgnoredOnly ==
    [][OnKeyPress =>
          LET keysym == XLookupKeysym(NextEvent.keycode)
              state == NextEvent.state
              Runs(k) == \E j \in SameBinding(k) : last'.op = KeyLabel(j)
          IN  \A k \in Slots :
                (keys[k].keysym # NoSymbol /\ keys[k].keysym = keysym) =>
                    /\ (\E L \in SUBSET LockBits :
                            state = keys[k].modifiers \cup L) => Runs(k)
                    /\ (\E m \in state \ LockBits :
                            m \notin keys[k].modifiers) => ~Runs(k)
                    /\ (\E m \in keys[k].modifiers : m \notin state)
                            => ~Runs(k)]_vars

(* the quit binding "a" pressed with caps-lock and num-lock on *)
C8_Witness ==
    /\ numlockmask = Mod2Mask
    /\ keys[KEY_QUIT] = [keysym |-> "a", modifiers |-> {}]
    /\ last = [op |-> "key_quit", state |-> {"Lock", "Mod2"}]
    /\ selfpipe.bytes = 1

(* C9: once the loop runs, every configured binding is grabbed for all 4   *)
(* combinations of caps-lock and num-lock added to its modifiers.          *)
C9_AllLockCombinationsGrabbed ==
    InLoop =>
        \A k \in Slots :
            keys[k].keysym # NoSymbol =>
                \A L \in SUBSET LockBits :
                    [keycode |-> XKeysymToKeycode(keys[k].keysym),
                     modifiers |-> keys[k].modifiers \cup L] \in grabs

CleanupCalls ==
    <<"XUngrabKey", "XUnmapWindow", "XFreeGC", "XDestroyWindow", "XCloseDisplay">>

(* C10: processing the quit hotkey puts one more byte into the self-pipe;  *)
(* with a byte in the pipe the loop does nothing at the wait but leave for *)
(* the cleanup; the cleanup shows the cursor if it was hidden, then        *)
(* releases the grabs, destroys the window and closes the connection, in   *)
(* that order, and the process exits with status 0.                        *)
C10_QuitTerminatesCleanly ==
    /\ [][(OnKeyPress /\ last'.op = "key_quit") =>
             /\ selfpipe'.bytes = selfpipe.bytes + 1
             /\ pc' = "drain"]_vars
    /\ [][(pc = "select" /\ selfpipe.bytes > 0) =>
             /\ pc' \in {"select", "cleanup"}
             /\ UNCHANGED <<options, cursor_visible, highlight_visible,
                            button_pressed, hidecount, mapped, evq>>
             /\ pc' = "select" => UNCHANGED <<last, calls>>]_vars
    /\ [][Cleanup =>
             calls' = (IF cursor_visible = 0 THEN <<"XFixesShowCursor">>
                       ELSE << >>) \o CleanupCalls]_vars
    /\ [](pc = "exit" /\ last.op = "cleanup" =>
             /\ exit_status = 0
             /\ cursor_visible = 1 /\ hidecount = 0
             /\ grabs = {}
             /\ ~mapped /\ ~win_exists /\ ~dpy_open)

(* the quit hotkey has been processed while the cursor is hidden *)
C10_Witness ==
    /\ last.op = "key_quit"
    /\ pc = "drain"
    /\ selfpipe.bytes = 1
    /\ cursor_visible = 0

(* C11: whenever sig_handler can run (the handlers of SIGINT and SIGTERM   *)
(* are installed) the cancellation pipe exists, so that the byte the       *)
(* handler writes reaches the loop and every signal leads to shutdown.     *)
C11_PipeExistsWhenHandlerInstalled ==
    sig_installed => selfpipe.created

StartupFailed ==
    /\ pc' = "exit"
    /\ exit_status' # 0
    /\ ~selfpipe'.created
    /\ ~sig_installed'

UnresolvableKey ==
    \E k \in Slots : /\ keys[k].keysym # NoSymbol
                     /\ XKeysymToKeycode(keys[k].keysym) = 0

(* C12: a failure of startup (the display cannot be opened, an extension   *)
(* or its version is missing, the window or a colour cannot be created, a  *)
(* configured key symbol is on no key, a hotkey is grabbed by another      *)
(* client) ends the process with a non-zero status; the cancellation pipe  *)
(* of the event loop is never created, and the process takes no further    *)
(* step.                                                                   *)
C12_StartupFailureExitsNonZero ==
    /\ [][(\E nlm \in NumLockMasks, fault \in Faults : Setup(nlm, fault))
            => StartupFailed]_vars
    /\ [][((\E nlm \in NumLockMasks : Setup(nlm, NoFault)) /\ UnresolvableKey)
            => StartupFailed]_vars
    /\ [][Sync(XError(X_GrabKey, "BadAccess")) => StartupFailed]_vars
    /\ [][pc # "exit"]_vars

(* Scenario E: another client holds one of the key combinations *)
C12_Witness ==
    /\ pc = "exit"
    /\ last.op = "xerror"
    /\ grabs # {}
    /\ exit_status = 1

(* the option values and hotkey strings the claim calls invalid *)
InvalidArgs ==
    {Arg("-o", <<"-", "1">>), Arg("-r", <<"0">>), Arg("-r", <<"x">>),
     Arg("-t", <<"0">>), Arg("--key-quit", <<"X", "-", "a">>),
     Arg("--key-toggle-cursor", <<"n", "o">>)}

Stops(argv) ==
    {i \in DOMAIN argv : argv[i] \in InvalidArgs \/ argv[i].opt \in {"-h", "-x"}}

FirstStop(argv) ==
    argv[CHOOSE i \in Stops(argv) : \A j \in Stops(argv) : i <= j]

(* C13: a negative outline, a radius or hide timeout that is not positive, *)
(* or a hotkey string that does not parse, ends the process with a         *)
(* non-zero status, and -h ends it with status 0, whichever of them comes  *)
(* first on the command line; in both cases no display call has been made  *)
(* and no connection is open.                                              *)
C13_InvalidOptionExitsBeforeDisplay ==
    [][\A argv \in Argvs :
          (ParseOptions(argv) /\ Stops(argv) # {}) =>
              /\ pc' = "exit"
              /\ ~dpy_open'
              /\ calls' = << >>
              /\ FirstStop(argv) \in InvalidArgs => exit_status' # 0
              /\ FirstStop(argv).opt = "-h" => exit_status' = 0]_vars

(* Scenario D: --radius 0 *)
C13_Witness ==
    /\ pc = "exit"
    /\ last.op = "set_options"
    /\ options.radius = 0
    /\ exit_status = 1
    /\ ~dpy_open

(* -h *)
C13_WitnessHelp ==
    /\ pc = "exit"
    /\ last.op = "set_options"
    /\ exit_status = 0

Pressed == "XSetForeground(pressed_color)"

Released == "XSetForeground(released_color)"

(* the calls of one redraw for a value of button_pressed *)
RedrawCalls(pressed) ==
    <<IF pressed # 0 THEN Pressed ELSE Released>>
    \o (IF options.outline # 0
        THEN <<"XSetLineAttributes", "XDrawArc">>
        ELSE <<"XFillArc">>)

(* C14: a raw button press sets button_pressed and redraws in the pressed  *)
(* colour, a raw button release clears it and redraws in the released      *)
(* colour, and neither changes a visibility flag or an option; every       *)
(* redraw of any step uses the colour of the value button_pressed has.     *)
C14_ButtonsRecolourOnly ==
    /\ [][OnRawButtonPress =>
            /\ button_pressed' = 1
            /\ calls' = RedrawCalls(1)
            /\ UNCHANGED <<options, cursor_visible, highlight_visible,
                           hidecount, mapped>>]_vars
    /\ [][OnRawButtonRelease =>
            /\ button_pressed' = 0
            /\ calls' = RedrawCalls(0)
            /\ UNCHANGED <<options, cursor_visible, highlight_visible,
                           hidecount, mapped>>]_vars
    /\ [](/\ Has(calls, Pressed) => button_pressed = 1
          /\ Has(calls, Released) => button_pressed = 0)

(* Scenario B: the release after a press, with the highlight visible *)
C14_Witness ==
    /\ last.op = "button_release"
    /\ calls = <<Released, "XFillArc">>
    /\ button_pressed = 0
    /\ highlight_visible = 1

(* a redraw from show_highlight while the button is held *)
C14_WitnessPressedShow ==
    /\ Has(calls, "XMapWindow")
    /\ Has(calls, Pressed)

(* C15 as stated: a wait interrupted by a signal leaves the loop running,  *)
(* back at the wait.                                                       *)
C15_InterruptedWaitRetries ==
    [][SignalInSelect => pc' = "select"]_vars

(* C15, amended: a wait interrupted by a signal ends the loop like any     *)
(* other failed wait; the interruption is only not reported as an error    *)
(* (no perror), and nothing is shown or hidden before the cleanup.         *)
C15_InterruptedWaitEndsLoop ==
    /\ [][SignalInSelect =>
            /\ pc' = "cleanup"
            /\ ~Has(calls', "perror")
            /\ UNCHANGED <<options, cursor_visible, highlight_visible,
                           hidecount, mapped, button_pressed>>]_vars
    /\ [][SelectError =>
            /\ pc' = "cleanup"
            /\ Has(calls', "perror")]_vars

C15_Witness ==
    /\ pc = "cleanup"
    /\ last.op = "eintr"

(* the steps that call show_cursor, hide_cursor, show_highlight or         *)
(* hide_highlight                                                          *)
VisibilityStep ==
    ShowInitial \/ SelectTimeout \/ OnRawMotion \/ OnKeyPress \/ Cleanup

Hides ==
    \/ cursor_visible = 1 /\ cursor_visible' = 0
    \/ highlight_visible = 1 /\ highlight_visible' = 0

(* C17: the timeout hides the cursor exactly when auto-hide-cursor is on   *)
(* and the cursor is visible, hides the highlight exactly when             *)
(* auto-hide-highlight is on and the highlight is visible, and changes     *)
(* nothing else; apart from it only the two toggle hotkeys and the start   *)
(* hide anything.                                                          *)
C17_TimeoutHidesWhatAutoHideSays ==
    /\ [][SelectTimeout =>
            LET hc == options.auto_hide_cursor = 1 /\ cursor_visible = 1
                hh == options.auto_hide_highlight = 1 /\ highlight_visible = 1
            IN  /\ calls' = <<"XFlush">>
                            \o (IF hc THEN <<"XFixesHideCursor">> ELSE << >>)
                            \o (IF hh THEN <<"XUnmapWindow">> ELSE << >>)
                /\ cursor_visible' = IF hc THEN 0 ELSE cursor_visible
                /\ highlight_visible' = IF hh THEN 0 ELSE highlight_visible
                /\ hidecount' = IF hc THEN hidecount + 1 ELSE hidecount
                /\ mapped' = IF hh THEN FALSE ELSE mapped
                /\ UNCHANGED <<options, button_pressed, keys, selfpipe,
                               win_pos>>]_vars
    /\ [][Hides => \/ SelectTimeout
                   \/ ToggleCursorStep
                   \/ ToggleHighlightStep
                   \/ ShowInitial]_vars

(* a timeout that hid both *)
C17_Witness ==
    /\ last.op = "timeout"
    /\ calls = <<"XFlush", "XFixesHideCursor", "XUnmapWindow">>
    /\ cursor_visible = 0
    /\ highlight_visible = 0

(* C18: a raw-motion event shows the cursor exactly when auto-hide-cursor  *)
(* is on, the cursor preference is 'shown' and the cursor is hidden; it    *)
(* shows the highlight exactly when auto-hide-highlight is on, the         *)
(* highlight preference is 'shown' and the highlight is hidden; otherwise  *)
(* a visible highlight is only moved, and a hidden one is left alone; no   *)
(* option changes.                                                         *)
C18_MotionShowsWhatAutoHideHid ==
    [][OnRawMotion =>
          LET sc == /\ options.auto_hide_cursor = 1
                    /\ options.cursor_visible = 1
                    /\ cursor_visible = 0
              sh == /\ options.auto_hide_highlight = 1
                    /\ options.highlight_visible = 1
                    /\ highlight_visible = 0
          IN  /\ calls' = (IF sc THEN <<"XFixesShowCursor">> ELSE << >>)
                          \o (IF sh
                              THEN <<"XQueryPointer", "XMoveWindow", "XMapWindow">>
                                   \o RedrawCalls(button_pressed)
                              ELSE IF highlight_visible = 1
                                   THEN <<"XQueryPointer", "XMoveWindow">>
                                   ELSE << >>)
              /\ cursor_visible' = IF sc THEN 1 ELSE cursor_visible
              /\ highlight_visible' = IF sh THEN 1 ELSE highlight_visible
              /\ hidecount' = IF sc THEN hidecount - 1 ELSE hidecount
              /\ mapped' = IF sh THEN TRUE ELSE mapped
              /\ UNCHANGED <<options, button_pressed, keys, selfpipe>>]_vars

(* a motion that only moved the window of the visible highlight *)
C18_Witness ==
    /\ last.op = "motion"
    /\ calls = <<"XQueryPointer", "XMoveWindow">>
    /\ highlight_visible = 1
    /\ options.auto_hide_highlight = 1

(* C19: whenever the highlight is visible and no raw-motion event waits to *)
(* be processed, the window's top-left corner is at                        *)
(* (px - (radius + outline) - 1, py - (radius + outline) - 1) for the      *)
(* pointer at (px, py), and the middle of the window of size               *)
(* 2 * (radius + outline) + 2 is the pointer's position.                   *)
C19_WindowCentredOnPointer ==
    (/\ highlight_visible = 1
     /\ \A i \in DOMAIN Pending : Pending[i] # RawMotion)
    => /\ win_pos[1] = pointer[1] - (options.radius + options.outline) - 1
       /\ win_pos[2] = pointer[2] - (options.radius + options.outline) - 1
       /\ window_size(World) = 2 * (options.radius + options.outline) + 2
       /\ win_pos[1] + (window_size(World) \div 2) = pointer[1]
       /\ win_pos[2] + (window_size(World) \div 2) = pointer[2]

(* the window of the dot of radius 7 and outline 2 has followed the        *)
(* pointer to (3, 7)                                                       *)
C19_Witness ==
    /\ last.op = "motion"
    /\ highlight_visible = 1
    /\ Pending = << >>
    /\ pointer = <<3, 7>>
    /\ win_pos = <<-7, -3>>

(* the slots a key event matches: configured, the key symbol of the event, *)
(* and its modifier state without the lock bits                            *)
MatchingSlots(ev) ==
    {k \in Slots : /\ keys[k].keysym # NoSymbol
                   /\ keys[k].keysym = XLookupKeysym(ev.keycode)
                   /\ keys[k].modifiers = ev.state \ LockBits}

NoKeyEffect ==
    /\ calls' = << >>
    /\ UNCHANGED <<options, cursor_visible, highlight_visible, hidecount,
                   mapped, selfpipe, button_pressed, win_pos>>

(* what the action of slot k, and of no other slot, does *)
SlotEffect(k) ==
    CASE k = KEY_QUIT ->
            /\ selfpipe' = [selfpipe EXCEPT !.bytes = @ + 1]
            /\ UNCHANGED <<options, cursor_visible, highlight_visible>>
      [] k = KEY_TOGGLE_CURSOR ->
            /\ options' = [options EXCEPT !.cursor_visible = 1 - @]
            /\ UNCHANGED <<selfpipe, highlight_visible>>
      [] k = KEY_TOGGLE_HIGHLIGHT ->
            /\ options' = [options EXCEPT !.highlight_visible = 1 - @]
            /\ UNCHANGED <<selfpipe, cursor_visible>>
      [] k = KEY_TOGGLE_AUTOHIDE_CURSOR ->
            /\ options' = [options EXCEPT !.auto_hide_cursor = 1 - @]
            /\ UNCHANGED <<selfpipe, cursor_visible, highlight_visible>>
      [] k = KEY_TOGGLE_AUTOHIDE_HIGHLIGHT ->
            /\ options' = [options EXCEPT !.auto_hide_highlight = 1 - @]
            /\ UNCHANGED <<selfpipe, cursor_visible, highlight_visible>>

(* C20: a key press runs the action of the lowest slot among those whose   *)
(* binding equals the key symbol and the lock-cleaned modifiers of the     *)
(* event, and of no other slot; with no such slot nothing changes; a slot  *)
(* that is not configured is never the one that runs.                      *)
C20_FirstMatchingSlotRuns ==
    [][OnKeyPress =>
          LET m == MatchingSlots(NextEvent)
          IN  IF m = {}
              THEN NoKeyEffect
              ELSE SlotEffect(CHOOSE k \in m : \A j \in m : k <= j)]_vars

(* two slots hold the same binding and the lower one, toggle-cursor, ran *)
C20_Witness ==
    /\ last.op = "key_toggle_cursor"
    /\ keys[KEY_TOGGLE_CURSOR] = keys[KEY_TOGGLE_HIGHLIGHT]
    /\ keys[KEY_TOGGLE_CURSOR].keysym # NoSymbol
    /\ options.cursor_visible = 1
    /\ options.highlight_visible = 1

ProgramState ==
    <<options, cursor_visible, highlight_visible, button_pressed, hidecount,
      mapped, win_pos>>

(* C21: a wait that ends with a byte in the cancellation pipe goes         *)
(* straight to the cleanup: the events queued at that moment stay          *)
(* unprocessed, no flag, preference or button state changes, and the only  *)
(* step that follows is the cleanup.                                       *)
C21_CancelSkipsQueuedEvents ==
    /\ [][(pc = "select" /\ selfpipe.bytes > 0 /\ pc' # "select") =>
            /\ pc' = "cleanup"
            /\ UNCHANGED ProgramState
            /\ UNCHANGED <<evq, sock>>]_vars
    /\ [][pc = "cleanup" => Cleanup]_vars

(* the loop was cancelled with an event still queued *)
C21_Witness ==
    /\ pc = "cleanup"
    /\ last.op = "cancel"
    /\ Pending # << >>

(* C22: the drain loop is left only when no event is pending, whether or   *)
(* not a byte is in the cancellation pipe: an event that follows the quit  *)
(* key in the batch is processed and takes effect, and the pipe is looked  *)
(* at only by the next wait.                                               *)
C22_CancelOnlyAtWaitBoundary ==
    /\ [][(pc = "drain" /\ pc' # "drain") =>
            /\ Pending = << >>
            /\ pc' = "select"]_vars
    /\ [][(pc = "drain" /\ selfpipe.bytes > 0 /\ OnRawButtonPress) =>
            button_pressed' = 1]_vars
    /\ [][(pc = "drain" /\ selfpipe.bytes > 0 /\ ToggleCursorStep) =>
            options'.cursor_visible = 1 - options.cursor_visible]_vars
    /\ [][pc' = "cleanup" => pc = "select"]_vars

(* the quit key has been handled and an event of the batch is pending *)
C22_Witness ==
    /\ pc = "drain"
    /\ last.op = "key_quit"
    /\ selfpipe.bytes = 1
    /\ Pending # << >>

(* an event was processed after the byte was written *)
C22_WitnessProcessed ==
    /\ pc = "drain"
    /\ last.op = "button_press"
    /\ selfpipe.bytes = 1
    /\ button_pressed = 1

(* C23: whenever sig_handler can run, what it does is one write of one     *)
(* byte to the cancellation pipe: the pipe holds one byte more, no display *)
(* call is made and no flag, preference or button state changes.           *)
C23_HandlerOnlyWritesToPipe ==
    SignalDelivered =>
        LET w == quit(World)
        IN  /\ w.selfpipe.bytes = selfpipe.bytes + 1
            /\ w.calls = << >>
            /\ w.options = options
            /\ w.cursor_visible = cursor_visible
            /\ w.highlight_visible = highlight_visible
            /\ w.button_pressed = button_pressed
            /\ w.hidecount = hidecount
            /\ w.mapped = mapped

(* C24: while the loop runs (from its entry to the cleanup) a highlight    *)
(* that is visible has the preference 'shown' and so has a cursor that is  *)
(* visible; at the entry of the loop each flag equals its preference.      *)
C24_ShownImpliesPreferred ==
    /\ pc \in {"signal", "main_loop", "select", "drain", "cleanup"} =>
          /\ highlight_visible = 1 => options.highlight_visible = 1
          /\ cursor_visible = 1 => options.cursor_visible = 1
    /\ pc \in {"signal", "main_loop"} =>
          /\ highlight_visible = options.highlight_visible
          /\ cursor_visible = options.cursor_visible

(* the highlight is hidden by the timeout while its preference is 'shown', *)
(* and the cursor is shown with the preference 'shown'                     *)
C24_Witness ==
    /\ pc = "select"
    /\ last.op = "timeout"
    /\ highlight_visible = 0
    /\ options.highlight_visible = 1
    /\ cursor_visible = 1
    /\ options.cursor_visible = 1

(* C25: whenever the loop waits in select(), the client-side queue holds   *)
(* no event, so that no timeout is taken with a received event pending.    *)
C25_NoEventStrandedAtWait ==
    pc = "select" => evq = << >>

(* C26: button_pressed is 1 exactly when the raw button event processed   *)
(* last was a press: a press sets it, a release clears it whatever the     *)
(* number of buttons still held, redrawing in the released colour, and no  *)
(* other step changes it; before the first button event it is 0.           *)
C26_LastButtonEventDecides ==
    /\ [][OnRawButtonPress => button_pressed' = 1]_vars
    /\ [][OnRawButtonRelease =>
            /\ button_pressed' = 0
            /\ Has(calls', Released)]_vars
    /\ [][button_pressed' # button_pressed =>
            OnRawButtonPress \/ OnRawButtonRelease]_vars
    /\ [](pc \in {"main", "setup", "sync", "show", "signal", "main_loop"}
            => button_pressed = 0)

(* two buttons were held and one of them released: every event has been    *)
(* processed, a button is still down and button_pressed is 0               *)
C26_Witness ==
    /\ last.op = "button_release"
    /\ Pending = << >>
    /\ held = 1
    /\ button_pressed = 0
    /\ Has(calls, Released)

====
